---- MODULE Spec2Model ----
(***************************************************************************)
(* Tracklet lifecycle and the per-frame detection-to-tracklet assignment   *)
(* loop of the two orchestrators of the repository:                        *)
(*   - sportslabkit/tracking_model/multi_object_tracker.py                 *)
(*       MultiObjectTracker.step / track / cleanup_trackers                *)
(*   - sportslabkit/mot/base.py                                            *)
(*       MultiObjectTracker.process_sequence_item / track /                *)
(*       cleanup_tracklets                                                 *)
(* A behaviour is one tracking pass of one orchestrator (chosen at         *)
(* construction): track() begins, one per-frame step per input frame,      *)
(* track() ends.  The Tracklet class itself is not part of the sources;    *)
(* its operations follow the tracklet contract of the specification.       *)
(***************************************************************************)
EXTENDS Integers, Sequences, FiniteSets, TLC

\* ---------------------------------------------------------------- bounds
MaxDets == 2          \* detections per frame: 0..MaxDets
MaxFrames == 3        \* frames of the input sequence: 0..MaxFrames
MaxStaleness == 2     \* max_staleness is drawn from 0..MaxStaleness
MaxMinLength == 3     \* min_length is drawn from 1..MaxMinLength
MaxLive == 2          \* a frame is only fed while the live list fits
MaxMatches == 2       \* pairs in one matching result: 0..MaxMatches
MaxWindow == 2        \* window_size is drawn from 1..MaxWindow
MaxStride == 2        \* the step_size argument is drawn from None, 0..MaxStride
MaxTrials == 2        \* tune_hparams runs 0..MaxTrials trials

\* Python's None (a missed update, an absent step argument)
None == -1

VARIABLES
    orch,                   \* "tm": tracking_model orchestrator, "base": mot/base.py
    max_staleness,          \* configuration
    min_length,             \* configuration
    window_size,            \* configuration (mot/base.py): frames per item
    step_size,              \* configuration (mot/base.py): stride of the loop
    detection_model,        \* mot/base.py: self.detection_model, "og" or "dummy"
    tune,                   \* the running tune_hparams call, see NoTune
    next_id,                \* tracklet id allocator
    pc,                     \* position of track(): "idle", "run", "done", "failed"
    err,                    \* the exception the last call raised, see NoError
    num_frames,             \* length of the input sequence of the pass
    frame_idx,              \* number of frames consumed by the loop of track()
    \* tracking_model/multi_object_tracker.py
    trackers,               \* self.trackers
    stale_trackers,         \* self.stale_trackers
    current_step,           \* self.current_step
    detections_matched_ids, \* self.detections_matched_ids
    \* mot/base.py
    alive_tracklets,        \* self.alive_tracklets
    dead_tracklets,         \* self.dead_tracklets
    frame_count,            \* self.frame_count
    \* result of track()
    export,                 \* tracklets handed to the export (to_bbdf / all_trackers)
    \* history of the last per-frame step (observation only)
    h                       \* record, see NoHistory

vars == <<orch, max_staleness, min_length, window_size, step_size,
          detection_model, tune, next_id, pc, err, num_frames, frame_idx,
          trackers, stale_trackers, current_step, detections_matched_ids,
          alive_tracklets, dead_tracklets, frame_count, export, h>>

\* ------------------------------------------------------ sequence helpers
RECURSIVE SelectSeqIdx(_, _, _)
\* the subsequence of s at the positions k..Len(s) whose 0-based index is in keep
SelectSeqIdx(s, keep, k) ==
    IF k > Len(s) THEN <<>>
    ELSE (IF (k - 1) \in keep THEN <<s[k]>> ELSE <<>>) \o SelectSeqIdx(s, keep, k + 1)

Range(s) == {s[k] : k \in 1..Len(s)}

Ids(s) == {s[k].id : k \in 1..Len(s)}

\* ------------------------------------------------------------- Tracklet
\* A tracklet: id, consecutive-miss counter, one history entry per update
\* ("det": real observation, "miss": sentinel) with the step it was recorded
\* for, the max_staleness it was built with, the number of cleanup() calls
\* it received and the step counter of the frame that created it.
Tracklet(id, ms, step) ==
    [id |-> id, staleness |-> 0, obs |-> <<>>, max_staleness |-> ms,
     cleaned |-> 0, created |-> step]

\* Tracklet.update(detection, global_step)
update(t, det, global_step) ==
    IF det # None
    THEN [t EXCEPT !.obs = Append(@, [kind |-> "det", step |-> global_step]),
                   !.staleness = 0]
    ELSE [t EXCEPT !.obs = Append(@, [kind |-> "miss", step |-> global_step]),
                   !.staleness = @ + 1]

\* len(tracklet)
length(t) == Len(t.obs)

is_stale(t) == t.staleness > t.max_staleness

\* the tracklet contract defines no invalid state
is_invalid(t) == FALSE

is_active(t) == ~is_stale(t)

\* Tracklet.cleanup()
cleanup(t) == [t EXCEPT !.cleaned = @ + 1]

\* ---------------------------------------------------------------- Init
\* no exception; kind is otherwise "noniterable" (track), "batched", "missing"
\* (process_sequence_item), "detector" or "matching" (tracking_model); id and
\* create tell the tracklet of the failing update_tracklet call and whether
\* create_tracklet made it, keys the observation types of the state it got,
\* ndim the dimensions of one frame of the sequence whose item was batched
NoError == [kind |-> "none", id |-> None, create |-> FALSE, keys |-> {}, ndim |-> 0]

NoHistory ==
    [n |-> 0,              \* number of detections of the frame
     matches |-> <<>>,     \* the matching result, pairs <<track_idx, det_idx>>
     before |-> <<>>,      \* the live list when the step began
     calls |-> <<>>,       \* update calls of the step, in order: [id, det]
     created |-> <<>>,     \* ids of the tracklets created in the step, in order
     precleanup |-> <<>>,  \* the live list when the cleanup pass began
     discarded |-> {},     \* ids evicted by the step and not archived
     single |-> TRUE,      \* every frame so far: one detection, paired with the
                           \* single live tracklet whenever one exists
     precreate |-> <<>>,   \* the live list when the first tracklet was created
     postcreate |-> <<>>,  \* the live list when the last tracklet was created
     new |-> <<>>,         \* the created tracklets as their creation returned them
     left |-> {},          \* ids that left the live list in a step of this pass
     returned |-> <<>>,    \* tracking_model: the list step() returned
     log |-> <<>>,         \* the calls the loop of track() made, in order
     inputs |-> <<>>,      \* a recorded input: the number of detections per frame
     pass |-> 1,           \* the number of the track() call on this instance
     first |-> <<>>,       \* the result the first track() call left
     keys |-> {}]          \* mot/base.py: the keys of the state the step's input
                           \* singled out (all required ones when it did not)

\* no tune_hparams call is running; pc is otherwise "search" (the study
\* runs), "returned" or "raised" (tune_hparams has exited)
NoTune ==
    [pc |-> "idle",
     reuse |-> FALSE,      \* the reuse_detections argument
     trial |-> 0,          \* trials started
     changed |-> FALSE,    \* the last trial changed max_staleness or min_length
     og |-> "og",          \* og_detection_model
     detections |-> <<>>]  \* the frames the detections were computed for

\* __init__: self.step_size = step_size or window_size
step_size_or(step_size_arg, window) ==
    IF step_size_arg = None \/ step_size_arg = 0 THEN window ELSE step_size_arg

\* the fields that do not depend on the constructor's arguments
InitState ==
    /\ detection_model = "og"
    /\ tune = NoTune
    /\ next_id = 0
    /\ pc = "idle"
    /\ err = NoError
    /\ num_frames = 0
    /\ frame_idx = 0
    /\ trackers = <<>>
    /\ stale_trackers = <<>>
    /\ current_step = 0
    /\ detections_matched_ids = <<>>
    /\ alive_tracklets = <<>>
    /\ dead_tracklets = <<>>
    /\ frame_count = 0
    /\ export = <<>>
    /\ h = NoHistory

\* either orchestrator, built with the default window_size and step_size
Init ==
    /\ orch \in {"tm", "base"}
    /\ max_staleness \in 0..MaxStaleness
    /\ min_length \in 1..MaxMinLength
    /\ window_size = 1
    /\ step_size = step_size_or(None, window_size)
    /\ InitState

\* the mot/base.py orchestrator, built with a window_size and a step_size
InitWindow ==
    /\ orch = "base"
    /\ max_staleness \in 0..MaxStaleness
    /\ min_length \in 1..MaxMinLength
    /\ window_size \in 1..MaxWindow
    /\ \E step_size_arg \in {None} \cup (0..MaxStride) :
           step_size = step_size_or(step_size_arg, window_size)
    /\ InitState

\* ------------------------------------------------- matching strategy
\* The matching results the strategy may return for nT live tracklets and nD
\* detections: at most MaxMatches pairs <<track_idx, det_idx>> (0-based, in
\* range), listed in increasing (det_idx, track_idx) order.  A result may
\* repeat an index on either axis; OneToOne tells the results that keep the
\* matching contract.
PairLess(p, q) == p[2] < q[2] \/ (p[2] = q[2] /\ p[1] < q[1])

Matchings(nT, nD) ==
    UNION {{m \in [1..k -> (0..(nT - 1)) \X (0..(nD - 1))] :
               \A a \in 1..(k - 1) : PairLess(m[a], m[a + 1])} : k \in 0..MaxMatches}

OneToOne(m) ==
    \A a, b \in 1..Len(m) : a # b => (m[a][1] # m[b][1] /\ m[a][2] # m[b][2])

\* one detection, and the strategy returns the single best pair: the pair
\* of that detection with the single live tracklet when there is one
SingleBestPair(trs, n, matches) ==
    /\ n = 1
    /\ Len(trs) <= 1
    /\ matches = IF Len(trs) = 1 THEN << <<0, 0>> >> ELSE <<>>

\* ------------------------- tracking_model/multi_object_tracker.py
\* variant: the new tracker is updated with the detection twice
instatiate_tracker_with_detection_twice(id, det, step) ==
    update(update(Tracklet(id, max_staleness, step), det, None), det, None)

\* the new tracker gets its first update without a global_step argument
instatiate_tracker_with_detection(id, det, step) ==
    update(Tracklet(id, max_staleness, step), det, None)

RECURSIVE step_assigned(_, _, _)
\* "assigned trackers: correct": the loop over matches from position k on;
\* s carries the live list, detections_matched_ids and the update calls
step_assigned(s, matches, k) ==
    IF k > Len(matches) THEN s
    ELSE LET track_idx == matches[k][1]
             det_idx == matches[k][2]
             t == update(s.trackers[track_idx + 1], det_idx, current_step)
         IN step_assigned(
                [s EXCEPT !.trackers[track_idx + 1] = t,
                          !.ids[det_idx + 1] = t.id,
                          !.calls = Append(@, [id |-> t.id, det |-> det_idx])],
                matches, k + 1)

RECURSIVE step_create_same_id(_, _, _, _)
\* variant: the id allocator does not advance between two creations
step_create_same_id(s, assigned_det_idxs, n, det_idx) ==
    IF det_idx >= n THEN [s EXCEPT !.next_id = @ + Len(s.created)]
    ELSE IF det_idx \in assigned_det_idxs
         THEN step_create_same_id(s, assigned_det_idxs, n, det_idx + 1)
         ELSE LET tracker == instatiate_tracker_with_detection(s.next_id, det_idx, current_step)
              IN step_create_same_id(
                     [s EXCEPT !.trackers = Append(@, tracker),
                               !.ids[det_idx + 1] = tracker.id,
                               !.calls = Append(@, [id |-> tracker.id, det |-> det_idx]),
                               !.created = Append(@, tracker.id),
                               !.new = Append(@, tracker)],
                     assigned_det_idxs, n, det_idx + 1)

RECURSIVE step_create_no_entry(_, _, _, _)
\* variant: the id of a new tracker is not written to detections_matched_ids
step_create_no_entry(s, assigned_det_idxs, n, det_idx) ==
    IF det_idx >= n THEN s
    ELSE IF det_idx \in assigned_det_idxs
         THEN step_create_no_entry(s, assigned_det_idxs, n, det_idx + 1)
         ELSE LET tracker == instatiate_tracker_with_detection(s.next_id, det_idx, current_step)
              IN step_create_no_entry(
                     [s EXCEPT !.trackers = Append(@, tracker),
                               !.calls = Append(@, [id |-> tracker.id, det |-> det_idx]),
                               !.created = Append(@, tracker.id),
                               !.new = Append(@, tracker),
                               !.next_id = @ + 1],
                     assigned_det_idxs, n, det_idx + 1)

RECURSIVE step_create(_, _, _, _)
\* "not assigned detections: create new trackers": the detections det_idx..n-1
step_create(s, assigned_det_idxs, n, det_idx) ==
    IF det_idx >= n THEN s
    ELSE IF det_idx \in assigned_det_idxs
         THEN step_create(s, assigned_det_idxs, n, det_idx + 1)
         ELSE LET tracker == instatiate_tracker_with_detection(s.next_id, det_idx, current_step)
              IN step_create(
                     [s EXCEPT !.trackers = Append(@, tracker),
                               !.ids[det_idx + 1] = tracker.id,
                               !.calls = Append(@, [id |-> tracker.id, det |-> det_idx]),
                               !.created = Append(@, tracker.id),
                               !.new = Append(@, tracker),
                               !.next_id = @ + 1],
                     assigned_det_idxs, n, det_idx + 1)

\* variant: with an empty matching result no tracker gets its miss update
step_unassigned_skip(s, assigned_track_idxs) ==
    LET idxs == IF assigned_track_idxs = {} THEN {}
                ELSE (0..(Len(s.trackers) - 1)) \ assigned_track_idxs
        missed == SelectSeqIdx(s.trackers, idxs, 1)
    IN [s EXCEPT !.trackers = [k \in 1..Len(s.trackers) |->
                                  IF (k - 1) \in idxs
                                  THEN update(s.trackers[k], None, current_step)
                                  ELSE s.trackers[k]],
                 !.calls = @ \o [k \in 1..Len(missed) |-> [id |-> missed[k].id, det |-> None]]]

\* "unassigned trackers": every index of the live list as it is now, the
\* trackers appended by step_create included, that is in no match
step_unassigned(s, assigned_track_idxs) ==
    LET idxs == (0..(Len(s.trackers) - 1)) \ assigned_track_idxs
        missed == SelectSeqIdx(s.trackers, idxs, 1)
    IN [s EXCEPT !.trackers = [k \in 1..Len(s.trackers) |->
                                  IF (k - 1) \in idxs
                                  THEN update(s.trackers[k], None, current_step)
                                  ELSE s.trackers[k]],
                 !.calls = @ \o [k \in 1..Len(missed) |-> [id |-> missed[k].id, det |-> None]]]

\* variant: the stale trackers are copied to the archive and stay live
cleanup_trackers_copy(trs, stale) ==
    [trackers |-> trs,
     stale_trackers |-> stale \o SelectSeq(trs, LAMBDA t : is_stale(t) /\ ~is_invalid(t))]

\* variant: the stale trackers are removed and not archived
cleanup_trackers_drop(trs, stale) ==
    [trackers |-> SelectSeq(trs, LAMBDA t : ~(is_stale(t) \/ is_invalid(t))),
     stale_trackers |-> stale]

\* variant: the stale trackers of the step replace the archive
cleanup_trackers_replace(trs, stale) ==
    [trackers |-> SelectSeq(trs, LAMBDA t : ~(is_stale(t) \/ is_invalid(t))),
     stale_trackers |-> SelectSeq(trs, LAMBDA t : is_stale(t) /\ ~is_invalid(t))]

\* cleanup_trackers: <<self.trackers, self.stale_trackers>> after the call
cleanup_trackers(trs, stale) ==
    [trackers |-> SelectSeq(trs, LAMBDA t : ~(is_stale(t) \/ is_invalid(t))),
     stale_trackers |-> stale \o SelectSeq(trs, LAMBDA t : is_stale(t) /\ ~is_invalid(t))]

\* variant: the filter is inverted
active_trackers_inverted(trs) == SelectSeq(trs, LAMBDA t : ~is_active(t))

active_trackers(trs) == SelectSeq(trs, is_active)

all_trackers == trackers \o stale_trackers

\* the state step() leaves for n detections and the matching result matches
step_result(n, matches) ==
    LET s0 == [trackers |-> trackers, ids |-> [k \in 1..n |-> None],
               calls |-> <<>>, created |-> <<>>, new |-> <<>>, next_id |-> next_id]
        s1 == step_assigned(s0, matches, 1)
        s2 == step_create(s1, {matches[k][2] : k \in 1..Len(matches)}, n, 0)
        s3 == step_unassigned(s2, {matches[k][1] : k \in 1..Len(matches)})
        c == cleanup_trackers(s3.trackers, stale_trackers)
    IN [trackers |-> c.trackers, stale_trackers |-> c.stale_trackers,
        ids |-> s3.ids, next_id |-> s3.next_id,
        calls |-> s3.calls, created |-> s3.created, precleanup |-> s3.trackers,
        precreate |-> s1.trackers, postcreate |-> s2.trackers, new |-> s2.new,
        returned |-> active_trackers(c.trackers)]

\* track(): the loop is entered; nothing is reset
tm_track_begin ==
    /\ orch = "tm" /\ pc = "idle"
    /\ \E n \in 0..MaxFrames : num_frames' = n
    /\ frame_idx' = 0
    /\ pc' = "run"
    /\ UNCHANGED <<orch, max_staleness, min_length, window_size, step_size,
                   detection_model, tune, next_id, err, trackers,
                   stale_trackers, current_step, detections_matched_ids,
                   alive_tracklets, dead_tracklets, frame_count, export, h>>

\* variant: the loop swallows the exception and goes on with the next frame
track_loop_next_swallow(raised) ==
    [pc |-> "run", frame_idx |-> frame_idx + 1]

\* the for loop of track() (both orchestrators): an exception of the per-frame
\* step leaves the loop and track(); otherwise the next frame is taken
track_loop_next(raised) ==
    IF raised THEN [pc |-> "failed", frame_idx |-> frame_idx]
    ELSE [pc |-> "run", frame_idx |-> frame_idx + 1]

\* variant: the detector is called again when the detections are embedded
track_iteration_detect_twice(f, raises) ==
    IF raises = "detector" THEN << [op |-> "detect", frame |-> f] >>
    ELSE << [op |-> "detect", frame |-> f], [op |-> "detect", frame |-> f],
            [op |-> "step", frame |-> f] >>

\* the calls of one iteration of the loop of track() for frame f: the
\* detector, then step(); a detector that raises ends the iteration
track_iteration(f, raises) ==
    IF raises = "detector" THEN << [op |-> "detect", frame |-> f] >>
    ELSE << [op |-> "detect", frame |-> f], [op |-> "step", frame |-> f] >>

\* one iteration of the loop of track(): the detector's result (n detections),
\* then step(detections) with the result matches of the matching strategy;
\* the detector or the matching strategy may raise instead
step ==
    /\ orch = "tm" /\ pc = "run" /\ frame_idx < num_frames
    /\ \E raises \in {"none", "detector", "matching"} :
         IF raises # "none"
         THEN /\ err' = [NoError EXCEPT !.kind = raises]
              /\ pc' = track_loop_next(TRUE).pc
              /\ frame_idx' = track_loop_next(TRUE).frame_idx
              /\ h' = [h EXCEPT !.log = @ \o track_iteration(frame_idx, raises)]
              /\ UNCHANGED <<trackers, stale_trackers, detections_matched_ids,
                             next_id, current_step>>
         ELSE \E n \in 0..MaxDets : \E matches \in Matchings(Len(trackers), n) :
                /\ Len(trackers) + n - Cardinality({matches[k][2] : k \in 1..Len(matches)})
                       <= MaxLive
                /\ Len(trackers) + n <= MaxLive + 1
                /\ LET r == step_result(n, matches)
                   IN /\ trackers' = r.trackers
                      /\ stale_trackers' = r.stale_trackers
                      /\ detections_matched_ids' = r.ids
                      /\ next_id' = r.next_id
                      /\ h' = [n |-> n, matches |-> matches, before |-> trackers,
                               calls |-> r.calls, created |-> r.created,
                               precleanup |-> r.precleanup, discarded |-> {},
                               single |-> h.single /\ SingleBestPair(trackers, n, matches),
                               precreate |-> r.precreate, postcreate |-> r.postcreate,
                               new |-> r.new,
                               left |-> h.left \cup (Ids(r.precleanup) \ Ids(r.trackers)),
                               returned |-> r.returned,
                               log |-> h.log \o track_iteration(frame_idx, raises),
                               inputs |-> h.inputs, pass |-> h.pass, first |-> h.first,
                               keys |-> {}]
                /\ err' = NoError
                /\ current_step' = current_step + 1
                /\ pc' = track_loop_next(FALSE).pc
                /\ frame_idx' = track_loop_next(FALSE).frame_idx
    /\ UNCHANGED <<orch, max_staleness, min_length, window_size, step_size,
                   detection_model, tune, num_frames, alive_tracklets,
                   dead_tracklets, frame_count, export>>

\* track() returns after the last frame; the export is built from all_trackers()
tm_track_end ==
    /\ orch = "tm" /\ pc = "run" /\ frame_idx = num_frames
    /\ pc' = "done"
    /\ export' = all_trackers
    /\ UNCHANGED <<orch, max_staleness, min_length, window_size, step_size,
                   detection_model, tune, next_id, err, num_frames,
                   frame_idx, trackers, stale_trackers, current_step,
                   detections_matched_ids, alive_tracklets, dead_tracklets,
                   frame_count, h>>

\* ------------------------------------------------------- mot/base.py
\* the observation types a concrete tracker requires of every state
required_observation_types == {"box", "score"}

\* TRUE when the check passes; otherwise it raises ValueError
check_required_observations(target) == required_observation_types \subseteq target

\* a state handed to update_tracklet: its keys and whether it comes from a
\* detection ("det") or from a prediction for an unassigned tracklet ("miss")
State(kind, keys) == [kind |-> kind, keys |-> keys]

\* variant: the tracklet records the state before the check runs
update_tracklet_late_check(t, state) ==
    [raised |-> ~check_required_observations(state.keys),
     tracklet |-> [t EXCEPT !.obs = Append(@, [kind |-> state.kind,
                                               step |-> frame_count + 1])]]

\* the check comes first: when it raises, the tracklet is as it was
update_tracklet(t, state) ==
    IF ~check_required_observations(state.keys)
    THEN [raised |-> TRUE, tracklet |-> t]
    ELSE [raised |-> FALSE,
          tracklet |-> [t EXCEPT !.obs = Append(@, [kind |-> state.kind,
                                                    step |-> frame_count + 1])]]

create_tracklet(id, state) ==
    LET tracklet == Tracklet(id, max_staleness, frame_count + 1)
    IN IF ~check_required_observations(state.keys)
       THEN [raised |-> TRUE, tracklet |-> tracklet]
       ELSE update_tracklet(tracklet, state)

\* The calls a concrete update(current_frame, tracklets) makes, in order:
\* update_tracklet for the live tracklets at the indices in A (assigned a
\* detection), create_tracklet k times (idx None), update_tracklet for the
\* other live tracklets (not assigned)
base_calls(tracklets, A, k) ==
    LET all == 0..(Len(tracklets) - 1)
        idx == [j \in 1..Len(tracklets) |-> j - 1]
        assigned == SelectSeqIdx(idx, A, 1)
        unassigned == SelectSeqIdx(idx, all \ A, 1)
    IN [j \in 1..Len(assigned) |-> [idx |-> assigned[j], kind |-> "det"]]
       \o [j \in 1..k |-> [idx |-> None, kind |-> "det"]]
       \o [j \in 1..Len(unassigned) |-> [idx |-> unassigned[j], kind |-> "miss"]]

RECURSIVE base_run(_, _, _, _, _)
\* the calls from position j on; the state of call p carries the keys `keys`,
\* every other state carries all required types.  acc holds the live tracklets
\* (updated in place), the created ones, and the call that raised, if any
base_run(acc, calls, p, keys, j) ==
    IF j > Len(calls) \/ acc.raised THEN acc
    ELSE LET state == State(calls[j].kind,
                            IF j = p THEN keys ELSE required_observation_types)
             create == calls[j].idx = None
             r == IF create
                  THEN create_tracklet(next_id + Len(acc.new), state)
                  ELSE update_tracklet(acc.tracklets[calls[j].idx + 1], state)
         IN base_run(
                [tracklets |-> IF create THEN acc.tracklets
                               ELSE [acc.tracklets EXCEPT ![calls[j].idx + 1] = r.tracklet],
                 new |-> IF create /\ ~r.raised THEN Append(acc.new, r.tracklet)
                         ELSE acc.new,
                 raised |-> r.raised,
                 id |-> r.tracklet.id,
                 create |-> create],
                calls, p, keys, j + 1)

\* The abstract update(current_frame, tracklets) of a concrete tracker: the
\* live tracklets split into assigned and unassigned, each with one state
\* recorded for the frame, and the k created tracklets; or the exception of
\* the first call whose state lacks a required type
base_update(tracklets, A, k, p, keys) ==
    LET r == base_run([tracklets |-> tracklets, new |-> <<>>, raised |-> FALSE,
                       id |-> None, create |-> FALSE],
                      base_calls(tracklets, A, k), p, keys, 1)
    IN [raised |-> r.raised, id |-> r.id, create |-> r.create,
        tracklets |-> r.tracklets,
        assigned |-> SelectSeqIdx(r.tracklets, A, 1),
        new |-> r.new,
        unassigned |-> SelectSeqIdx(r.tracklets, (0..(Len(tracklets) - 1)) \ A, 1)]

increment_staleness(tracklets) ==
    [j \in 1..Len(tracklets) |-> [tracklets[j] EXCEPT !.staleness = @ + 1]]

reset_staleness(tracklets) ==
    [j \in 1..Len(tracklets) |-> [tracklets[j] EXCEPT !.staleness = 0]]

\* variant: the min_length filter is applied to the tracklets that stay live too
separate_stale_tracklets_short(unassigned_tracklets) ==
    [non_stale |-> SelectSeq(unassigned_tracklets,
                             LAMBDA t : ~is_stale(t) /\ length(t) >= min_length),
     stale |-> SelectSeq(unassigned_tracklets, is_stale)]

\* variant: the stale tracklets are returned in both halves
separate_stale_tracklets_both(unassigned_tracklets) ==
    [non_stale |-> unassigned_tracklets,
     stale |-> SelectSeq(unassigned_tracklets, is_stale)]

\* variant: a tracklet stays live one missed frame longer
separate_stale_tracklets_late(unassigned_tracklets) ==
    [non_stale |-> SelectSeq(unassigned_tracklets,
                             LAMBDA t : t.staleness <= t.max_staleness + 1),
     stale |-> SelectSeq(unassigned_tracklets,
                         LAMBDA t : t.staleness > t.max_staleness + 1)]

separate_stale_tracklets(unassigned_tracklets) ==
    [non_stale |-> SelectSeq(unassigned_tracklets, LAMBDA t : ~is_stale(t)),
     stale |-> SelectSeq(unassigned_tracklets, is_stale)]

\* variant: the kept tracklets are returned in reverse order
cleanup_tracklets_reversed(tracklets) ==
    LET kept == SelectSeq([j \in 1..Len(tracklets) |-> cleanup(tracklets[j])],
                          LAMBDA t : length(t) >= min_length)
    IN [j \in 1..Len(kept) |-> kept[Len(kept) + 1 - j]]

cleanup_tracklets(tracklets) ==
    SelectSeq([j \in 1..Len(tracklets) |-> cleanup(tracklets[j])],
              LAMBDA t : length(t) >= min_length)

\* variant: reset() leaves the archive as it is
reset_keeps_archive ==
    [alive_tracklets |-> <<>>, dead_tracklets |-> dead_tracklets, frame_count |-> 0]

\* reset()
reset == [alive_tracklets |-> <<>>, dead_tracklets |-> <<>>, frame_count |-> 0]

\* variant: reset() runs before the source is looked at
track_entry_reset_first(iterable) ==
    [raised |-> ~iterable, alive_tracklets |-> reset.alive_tracklets,
     dead_tracklets |-> reset.dead_tracklets, frame_count |-> reset.frame_count]

\* the first lines of track(): a source that is no sequence raises ValueError
\* before anything else happens; otherwise reset()
track_entry(iterable) ==
    IF ~iterable
    THEN [raised |-> TRUE, alive_tracklets |-> alive_tracklets,
          dead_tracklets |-> dead_tracklets, frame_count |-> frame_count]
    ELSE [raised |-> FALSE, alive_tracklets |-> reset.alive_tracklets,
          dead_tracklets |-> reset.dead_tracklets, frame_count |-> reset.frame_count]

\* track() is called: with a source that is no sequence (at any time between
\* passes) it raises, otherwise the loop is entered
track_begin ==
    /\ orch = "base"
    /\ \E iterable \in BOOLEAN :
         LET e == track_entry(iterable)
         IN /\ pc \in (IF iterable THEN {"idle"} ELSE {"idle", "done"})
            /\ alive_tracklets' = e.alive_tracklets
            /\ dead_tracklets' = e.dead_tracklets
            /\ frame_count' = e.frame_count
            /\ IF e.raised
               THEN /\ err' = [NoError EXCEPT !.kind = "noniterable"]
                    /\ UNCHANGED <<pc, num_frames, frame_idx>>
               ELSE /\ err' = NoError
                    /\ pc' = "run"
                    /\ \E n \in 0..MaxFrames : num_frames' = n
                    /\ frame_idx' = 0
    /\ UNCHANGED <<orch, max_staleness, min_length, window_size, step_size,
                   detection_model, tune, next_id, trackers, stale_trackers,
                   current_step, detections_matched_ids, export, h>>

RECURSIVE range(_, _, _)
\* Python's range(start, stop, stride) for stride >= 1, as a sequence
range(start, stop, stride) ==
    IF start >= stop THEN <<>>
    ELSE <<start>> \o range(start + stride, stop, stride)

\* the start indices of the loop of track() over a sequence of num_frames frames
track_range == range(0, num_frames - window_size + 1, step_size)

\* the dimensions one frame of the input array may have: a grey image, a
\* colour image, a batch of colour images
FrameNdims == {2, 3, 4}

\* the dimensions of sequence[i : i + window_size].squeeze() for frames of
\* frame_ndim dimensions: the window axis stays unless the window is one frame
item_ndim(frame_ndim) == frame_ndim + (IF window_size > 1 THEN 1 ELSE 0)

\* process_sequence_item: is_batched (the item is an array of 4 dimensions)
is_batched(frame_ndim) == item_ndim(frame_ndim) = 4

\* One iteration of the loop of track(): process_sequence_item(sequence) for
\* the window at the next start index.  The frame counter advances first; a
\* batched (4-dimensional) item raises; otherwise update() of the concrete
\* tracker runs (A, k: its assignment; p, keys: the state of its p-th call
\* lacks a type, p = 0: no state does),
\* then the staleness bookkeeping and the cleanup of the stale tracklets
process_sequence_item_of(frame_ndim, A, k, p, keys) ==
    /\ orch = "base" /\ pc = "run" /\ frame_idx < Len(track_range)
    /\ frame_count' = frame_count + 1
    /\ IF is_batched(frame_ndim)
       THEN /\ err' = [NoError EXCEPT !.kind = "batched", !.ndim = frame_ndim]
            /\ pc' = track_loop_next(TRUE).pc
            /\ frame_idx' = track_loop_next(TRUE).frame_idx
            /\ h' = [h EXCEPT !.log = Append(@, [op |-> "item",
                                                 frame |-> track_range[frame_idx + 1]])]
            /\ UNCHANGED <<alive_tracklets, dead_tracklets, next_id>>
       ELSE /\ Len(alive_tracklets) + k <= MaxLive
            /\ p = 0 <=> keys = required_observation_types
            /\ LET u == base_update(alive_tracklets, A, k, p, keys)
                   assigned_tracklets == reset_staleness(u.assigned)
                   unassigned_tracklets == increment_staleness(u.unassigned)
                   sep == separate_stale_tracklets(unassigned_tracklets)
                   stale_tracklets == cleanup_tracklets(sep.stale)
               IN IF u.raised
                  THEN /\ alive_tracklets' = u.tracklets
                       /\ next_id' = next_id + Len(u.new) + (IF u.create THEN 1 ELSE 0)
                       /\ err' = [kind |-> "missing", id |-> u.id,
                                  create |-> u.create, keys |-> keys, ndim |-> 0]
                       /\ pc' = track_loop_next(TRUE).pc
                       /\ frame_idx' = track_loop_next(TRUE).frame_idx
                       /\ h' = [h EXCEPT !.log = Append(@, [op |-> "item",
                                               frame |-> track_range[frame_idx + 1]])]
                       /\ UNCHANGED dead_tracklets
                  ELSE /\ alive_tracklets' = assigned_tracklets \o u.new \o sep.non_stale
                       /\ dead_tracklets' = dead_tracklets \o stale_tracklets
                       /\ next_id' = next_id + k
                       /\ err' = NoError
                       /\ pc' = track_loop_next(FALSE).pc
                       /\ frame_idx' = track_loop_next(FALSE).frame_idx
                       /\ h' = [n |-> k, matches |-> <<>>, before |-> alive_tracklets,
                                calls |-> [j \in 1..Len(assigned_tracklets) |->
                                              [id |-> assigned_tracklets[j].id, det |-> 0]]
                                          \o [j \in 1..k |-> [id |-> u.new[j].id, det |-> 0]]
                                          \o [j \in 1..Len(unassigned_tracklets) |->
                                              [id |-> unassigned_tracklets[j].id, det |-> None]],
                                created |-> [j \in 1..k |-> u.new[j].id],
                                precleanup |-> assigned_tracklets \o u.new \o unassigned_tracklets,
                                discarded |-> Ids(sep.stale) \ Ids(stale_tracklets),
                                single |-> h.single /\ k = 1 /\ Len(alive_tracklets) <= 1
                                           /\ A = 0..(Len(alive_tracklets) - 1),
                                precreate |-> u.tracklets, postcreate |-> u.tracklets,
                                new |-> u.new,
                                left |-> h.left \cup Ids(sep.stale),
                                returned |-> <<>>,
                                log |-> Append(h.log, [op |-> "item",
                                               frame |-> track_range[frame_idx + 1]]),
                                inputs |-> h.inputs, pass |-> h.pass,
                                first |-> h.first,
                                keys |-> keys]
    /\ UNCHANGED <<orch, max_staleness, min_length, window_size, step_size,
                   detection_model, tune, num_frames, trackers,
                   stale_trackers, current_step, detections_matched_ids, export>>

\* process_sequence_item(sequence): the item, the tracklets update() assigns,
\* the number of new tracklets and the observation keys are the inputs
\* (an item that is not batched is handled the same way whatever its dimensions)
process_sequence_item ==
    \/ \E frame_ndim \in FrameNdims :
          /\ is_batched(frame_ndim)
          /\ process_sequence_item_of(frame_ndim, {}, 0, 0, required_observation_types)
    \/ \E A \in SUBSET (0..(Len(alive_tracklets) - 1)) : \E k \in 0..MaxDets :
       \E p \in 0..(Len(alive_tracklets) + k) :
       \E keys \in SUBSET required_observation_types :
          process_sequence_item_of(CHOOSE frame_ndim \in FrameNdims : ~is_batched(frame_ndim),
                                   A, k, p, keys)

\* track() after the loop: the final cleanup of the live tracklets, then to_bbdf()
track_end ==
    /\ orch = "base" /\ pc = "run" /\ frame_idx = Len(track_range)
    /\ alive_tracklets' = cleanup_tracklets(alive_tracklets)
    /\ export' = cleanup_tracklets(alive_tracklets) \o dead_tracklets
    /\ pc' = "done"
    /\ UNCHANGED <<orch, max_staleness, min_length, window_size, step_size,
                   detection_model, tune, next_id, err, num_frames,
                   frame_idx, trackers, stale_trackers, current_step,
                   detections_matched_ids, dead_tracklets, frame_count, h>>

\* ------------------------------------------------------ specification
Next ==
    \/ tm_track_begin
    \/ step
    \/ tm_track_end
    \/ track_begin
    \/ process_sequence_item
    \/ track_end

Spec == Init /\ [][Next]_vars

\* ------------------------------------- track() twice on one instance
\* what a pass leaves, ids aside: per tracklet of the live registry and of
\* the archive its length, its staleness and its recorded observations
Result ==
    LET summary(s) == [j \in 1..Len(s) |->
                          [length |-> length(s[j]), staleness |-> s[j].staleness,
                           obs |-> s[j].obs]]
    IN [live |-> summary(IF orch = "tm" THEN trackers ELSE alive_tracklets),
        archive |-> summary(IF orch = "tm" THEN stale_trackers ELSE dead_tracklets)]

\* a matching strategy that is a function of its arguments: tracker j is
\* paired with detection j
IndexStrategy(nT, nD) ==
    LET m == IF nT < nD THEN nT ELSE nD
    IN [j \in 1..(IF m < MaxMatches THEN m ELSE MaxMatches) |-> <<j - 1, j - 1>>]

\* an orchestrator as built, and a recorded input: the number of detections
\* of each frame
InitReplay ==
    /\ orch \in {"tm", "base"}
    /\ max_staleness \in 0..MaxStaleness
    /\ min_length \in 1..MaxMinLength
    /\ window_size = 1
    /\ step_size = step_size_or(None, window_size)
    /\ detection_model = "og"
    /\ tune = NoTune
    /\ next_id = 0
    /\ pc = "idle"
    /\ err = NoError
    /\ num_frames = 0
    /\ frame_idx = 0
    /\ trackers = <<>>
    /\ stale_trackers = <<>>
    /\ current_step = 0
    /\ detections_matched_ids = <<>>
    /\ alive_tracklets = <<>>
    /\ dead_tracklets = <<>>
    /\ frame_count = 0
    /\ export = <<>>
    /\ \E n \in 0..MaxFrames : \E inputs \in [1..n -> 0..MaxDets] :
           h = [NoHistory EXCEPT !.inputs = inputs]

\* tracking_model: track() over the recorded input
replay_tm_track_begin ==
    /\ tm_track_begin
    /\ num_frames' = Len(h.inputs)

\* tracking_model: one iteration of the loop over the recorded input; the
\* detector returns the recorded detections, the strategy is IndexStrategy
replay_step ==
    /\ step
    /\ err'.kind = "none"
    /\ h'.n = h.inputs[frame_idx + 1]
    /\ h'.matches = IndexStrategy(Len(trackers), h'.n)

\* tracking_model: track() is called again with the same source; nothing is
\* reset (lines 75-81)
tm_track_again ==
    /\ orch = "tm" /\ pc = "done" /\ h.pass = 1
    /\ pc' = "run"
    /\ frame_idx' = 0
    /\ h' = [h EXCEPT !.pass = 2, !.first = Result]
    /\ UNCHANGED <<orch, max_staleness, min_length, window_size, step_size,
                   detection_model, tune, next_id, err, num_frames, trackers,
                   stale_trackers, current_step, detections_matched_ids,
                   alive_tracklets, dead_tracklets, frame_count, export>>

\* mot/base.py: track() over the recorded input
replay_track_begin ==
    /\ track_begin
    /\ pc' = "run"
    /\ num_frames' = Len(h.inputs)

\* mot/base.py: one iteration of the loop over the recorded input; update()
\* assigns the recorded detections to the first live tracklets and creates a
\* tracklet for each detection that is left
replay_process_sequence_item ==
    /\ orch = "base" /\ pc = "run" /\ frame_idx < Len(track_range)
    /\ LET d == h.inputs[frame_idx + 1]
           a == IF d < Len(alive_tracklets) THEN d ELSE Len(alive_tracklets)
       IN process_sequence_item_of(3, 0..(a - 1), d - a, 0, required_observation_types)

\* mot/base.py: track() is called again with the same source: reset() first
track_again ==
    /\ orch = "base" /\ pc = "done" /\ h.pass = 1
    /\ alive_tracklets' = track_entry(TRUE).alive_tracklets
    /\ dead_tracklets' = track_entry(TRUE).dead_tracklets
    /\ frame_count' = track_entry(TRUE).frame_count
    /\ pc' = "run"
    /\ frame_idx' = 0
    /\ h' = [h EXCEPT !.pass = 2, !.first = Result]
    /\ UNCHANGED <<orch, max_staleness, min_length, window_size, step_size,
                   detection_model, tune, next_id, err, num_frames, trackers,
                   stale_trackers, current_step, detections_matched_ids, export>>

NextReplay ==
    \/ replay_tm_track_begin
    \/ replay_step
    \/ tm_track_end
    \/ tm_track_again
    \/ replay_track_begin
    \/ replay_process_sequence_item
    \/ track_end
    \/ track_again

SpecReplay == InitReplay /\ [][NextReplay]_vars

\* ------------------------------------------------------ tune_hparams
\* the mot/base.py orchestrator as built, and the frames of frames_list (one
\* sequence) with the number of detections of each frame
InitTune ==
    /\ orch = "base"
    /\ max_staleness = MaxStaleness
    /\ min_length = MaxMinLength
    /\ window_size = 1
    /\ step_size = step_size_or(None, window_size)
    /\ detection_model = "og"
    /\ tune = NoTune
    /\ next_id = 0
    /\ pc = "idle"
    /\ err = NoError
    /\ num_frames = 0
    /\ frame_idx = 0
    /\ trackers = <<>>
    /\ stale_trackers = <<>>
    /\ current_step = 0
    /\ detections_matched_ids = <<>>
    /\ alive_tracklets = <<>>
    /\ dead_tracklets = <<>>
    /\ frame_count = 0
    /\ export = <<>>
    /\ \E n \in 0..MaxFrames : \E inputs \in [1..n -> 0..MaxDets] :
           h = [NoHistory EXCEPT !.inputs = inputs]

\* the frames self.detection_model is called for when the detections are
\* computed for reuse: every frame of the sequence, in order
list_of_detections(n) == [j \in 1..n |-> j - 1]

\* tune_hparams up to study.optimize: use_bbdf raises; with reuse_detections
\* the detections are computed and the detection model is replaced
tune_hparams_begin ==
    /\ orch = "base" /\ tune.pc = "idle" /\ pc = "idle"
    /\ \E use_bbdf, reuse_detections \in BOOLEAN :
         IF use_bbdf
         THEN /\ tune' = [tune EXCEPT !.pc = "raised"]
              /\ UNCHANGED detection_model
         ELSE /\ tune' = [tune EXCEPT !.pc = "search", !.reuse = reuse_detections,
                                      !.og = detection_model,
                                      !.detections = IF reuse_detections
                                                     THEN list_of_detections(Len(h.inputs))
                                                     ELSE <<>>]
              /\ detection_model' = IF reuse_detections THEN "dummy" ELSE detection_model
    /\ UNCHANGED <<orch, max_staleness, min_length, window_size, step_size, next_id,
                   pc, err, num_frames, frame_idx, trackers, stale_trackers,
                   current_step, detections_matched_ids, alive_tracklets,
                   dead_tracklets, frame_count, export, h>>

\* objective(trial) up to the loop of track(): the suggested parameters are
\* set on self, then self.reset() and self.track(frames), which resets again
objective ==
    /\ orch = "base" /\ tune.pc = "search" /\ pc \in {"idle", "done"}
    /\ tune.trial < MaxTrials
    /\ \E ms \in 0..MaxStaleness : \E ml \in 1..MaxMinLength :
         /\ max_staleness' = ms
         /\ min_length' = ml
         /\ tune' = [tune EXCEPT !.trial = @ + 1,
                                 !.changed = (ms # max_staleness \/ ml # min_length)]
    /\ alive_tracklets' = track_entry(TRUE).alive_tracklets
    /\ dead_tracklets' = track_entry(TRUE).dead_tracklets
    /\ frame_count' = track_entry(TRUE).frame_count
    /\ pc' = "run"
    /\ err' = NoError
    /\ num_frames' = Len(h.inputs)
    /\ frame_idx' = 0
    /\ export' = <<>>
    /\ h' = [NoHistory EXCEPT !.inputs = h.inputs]
    /\ UNCHANGED <<orch, window_size, step_size, detection_model, next_id, trackers,
                   stale_trackers, current_step, detections_matched_ids>>

\* a per-frame step of a trial raises for a batched item
batched_process_sequence_item ==
    process_sequence_item_of(4, {}, 0, 0, required_observation_types)

\* an exception raised in a trial leaves objective, study.optimize and
\* tune_hparams; the lines after study.optimize do not run
tune_hparams_raise ==
    /\ orch = "base" /\ tune.pc = "search" /\ pc = "failed"
    /\ tune' = [tune EXCEPT !.pc = "raised"]
    /\ UNCHANGED <<orch, max_staleness, min_length, window_size, step_size,
                   detection_model, next_id, pc, err, num_frames, frame_idx,
                   trackers, stale_trackers, current_step, detections_matched_ids,
                   alive_tracklets, dead_tracklets, frame_count, export, h>>

\* study.optimize has run its n_trials trials (any number up to MaxTrials):
\* the detection model is put back, then study.best_params, which raises
\* when no trial was completed
tune_hparams_end ==
    /\ orch = "base" /\ tune.pc = "search" /\ pc \in {"idle", "done"}
    /\ detection_model' = IF tune.reuse THEN tune.og ELSE detection_model
    /\ tune' = [tune EXCEPT !.pc = IF tune.trial = 0 THEN "raised" ELSE "returned"]
    /\ UNCHANGED <<orch, max_staleness, min_length, window_size, step_size, next_id,
                   pc, err, num_frames, frame_idx, trackers, stale_trackers,
                   current_step, detections_matched_ids, alive_tracklets,
                   dead_tracklets, frame_count, export, h>>

NextTune ==
    \/ tune_hparams_begin
    \/ objective
    \/ replay_process_sequence_item
    \/ batched_process_sequence_item
    \/ track_end
    \/ tune_hparams_raise
    \/ tune_hparams_end

SpecTune == InitTune /\ [][NextTune]_vars

\* track() of the mot/base.py orchestrator built with any window and stride
NextWindow ==
    \/ track_begin
    \/ process_sequence_item
    \/ track_end

SpecWindow == InitWindow /\ [][NextWindow]_vars

\* ------------------------------------------- vocabulary of the claims
\* the live registry, the archive and the step counter of the orchestrator
Live == IF orch = "tm" THEN trackers ELSE alive_tracklets

Archive == IF orch = "tm" THEN stale_trackers ELSE dead_tracklets

\* a per-frame step has completed in this pass
Stepped == frame_idx > 0

\* the update calls of the last step on the tracklet id
CallsOn(id) == {k \in 1..Len(h.calls) : h.calls[k].id = id}

\* the update calls of the last step that handed out detection j
CallsWith(j) == {k \in 1..Len(h.calls) : h.calls[k].det = j}

\* the tracklet id received a real detection in the last step
GotDetection(id) == \E k \in CallsOn(id) : h.calls[k].det # None

\* the number of completed frames the tracklet has existed for
FramesLived(t) ==
    IF orch = "tm" THEN current_step - t.created ELSE frame_count - t.created + 1

\* created with a detection and never matched afterwards
NeverMatched(t) ==
    /\ Len(t.obs) >= 1
    /\ t.obs[1].kind = "det"
    /\ \A k \in 2..Len(t.obs) : t.obs[k].kind = "miss"

\* ------------------------------------------------------------ claims
\* C1: in every step() of the tracking_model orchestrator whose matching
\* result is one-to-one, every tracklet of the live registry, a tracklet
\* created in that call included, receives at most one update call, and every
\* detection is handed to exactly one tracklet.
C1_OneUpdatePerTracklet ==
    (orch = "tm" /\ Stepped /\ OneToOne(h.matches)) =>
        /\ \A id \in Ids(h.precleanup) : Cardinality(CallsOn(id)) <= 1
        /\ \A j \in 0..(h.n - 1) : Cardinality(CallsWith(j)) = 1

\* C2: after any sequence of step() calls, every tracklet of the live registry
\* or the archive has an observation history of length
\* current_step - created_step.
C2_HistoryLength ==
    orch = "tm" =>
        \A t \in Range(all_trackers) : length(t) = current_step - t.created

\* C3: at the end of a frame in which a tracklet received a real detection
\* (matched or created) its staleness is 0, and at the end of a frame in which
\* it received none its staleness is one more than before the frame (k after
\* the k-th consecutive miss), in both orchestrators.
C3_Staleness ==
    Stepped =>
        \A t \in Range(Live \o Archive) :
            /\ GotDetection(t.id) => t.staleness = 0
            /\ (t.id \in Ids(h.before) /\ ~GotDetection(t.id)) =>
                   \E b \in Range(h.before) : b.id = t.id /\ t.staleness = b.staleness + 1

\* C4: in the cleanup pass of a frame every live tracklet with
\* staleness > max_staleness leaves the live registry and is in the archive
\* iff its length is >= min_length; a removed shorter tracklet is in neither
\* collection and never in the export.
C4_EvictionByLength ==
    Stepped =>
        \A t \in Range(h.precleanup) :
            is_stale(t) =>
                /\ t.id \notin Ids(Live)
                /\ t.id \in Ids(Archive) <=> length(t) >= min_length
                /\ (pc = "done" /\ length(t) < min_length) => t.id \notin Ids(export)

\* C5: a step() on an empty live registry with n detections and a matching
\* result with no pairs ends with exactly n tracklets in the live registry,
\* each created in this frame, each active and each with staleness 0.
C5_EmptyRegistryCreates ==
    (orch = "tm" /\ Stepped /\ h.before = <<>> /\ h.matches = <<>>) =>
        /\ Len(trackers) = h.n
        /\ \A t \in Range(trackers) :
               t.id \in Range(h.created) /\ is_active(t) /\ t.staleness = 0

\* C6: a tracklet created with a detection and never matched afterwards has
\* staleness 0, 1, 2, ... after its creation frame and each following missed
\* frame, stays live while staleness <= max_staleness and leaves the live
\* registry in exactly the frame in which its staleness first exceeds
\* max_staleness, in both orchestrators.
C6_UnmatchedAgeing ==
    /\ \A t \in Range(Live) :
           NeverMatched(t) =>
               t.staleness = FramesLived(t) - 1 /\ t.staleness <= max_staleness
    /\ \A t \in Range(Archive) :
           NeverMatched(t) => t.staleness = max_staleness + 1

C8_SingleTrack ==
    (orch = "tm" /\ Stepped /\ h.single) =>
        /\ Len(all_trackers) = 1
        /\ all_trackers[1].staleness = 0
        /\ h.before # <<>> => h.before[1].id = all_trackers[1].id

\* C9: when the matching result is empty, step() gives every tracklet that
\* was live before the frame exactly one update, with None, and creates
\* exactly one tracklet per detection, so the live registry holds |T| + |D|
\* tracklets before the cleanup pass.
C9_EmptyMatching ==
    (orch = "tm" /\ Stepped /\ h.matches = <<>>) =>
        /\ \A b \in Range(h.before) :
               /\ Cardinality(CallsOn(b.id)) = 1
               /\ \A k \in CallsOn(b.id) : h.calls[k].det = None
        /\ Len(h.created) = h.n
        /\ \A j \in 0..(h.n - 1) :
               /\ Cardinality(CallsWith(j)) = 1
               /\ \A k \in CallsWith(j) : h.calls[k].id = h.created[j + 1]
        /\ Ids(h.precleanup) = Ids(h.before) \cup Range(h.created)
        /\ Len(h.precleanup) = Len(h.before) + h.n

\* C9 witness: a step with live tracklets, detections and an empty matching
\* result has completed.
C9_Witness ==
    /\ orch = "tm" /\ Stepped /\ h.matches = <<>>
    /\ Len(h.before) >= 1 /\ h.n >= 1

\* C10: when track() reaches the end of its input, a final cleanup pass is
\* applied to every tracklet still live before the export is built, so the
\* export contains no tracklet whose length is < min_length, in both
\* orchestrators.
C10_FinalCleanup ==
    pc = "done" =>
        /\ \A t \in Range(Live) : t.cleaned >= 1
        /\ \A t \in Range(export) : length(t) >= min_length
        /\ Ids(export) = Ids(Live) \cup Ids(Archive)

\* a per-frame step raised in this transition
StepRaised == err.kind = "none" /\ err'.kind \in {"missing", "batched", "detector", "matching"}

\* the tracklet with the given id in the list s
ById(s, id) == CHOOSE t \in Range(s) : t.id = id

\* C11: when a per-frame step fails because a state lacks a required
\* observation type, the step is atomic: the live registry, the archive, the
\* step counter and every tracklet's state are what they were before the step.
C11_AtomicFailure ==
    [][(err.kind = "none" /\ err'.kind = "missing") =>
           /\ alive_tracklets' = alive_tracklets
           /\ dead_tracklets' = dead_tracklets
           /\ frame_count' = frame_count]_vars

\* C12: when the matching result contains the same tracklet index twice or the
\* same detection index twice, step() fails with an error before any tracklet
\* update of that frame is applied: no tracklet is updated, none is created, the
\* registry is unchanged.
C12_DuplicateRejected ==
    (orch = "tm" /\ Stepped) =>
        (~OneToOne(h.matches) =>
             /\ h.calls = <<>>
             /\ h.created = <<>>
             /\ trackers = h.before)

\* C13: when process_sequence_item receives batched input it raises without
\* any registry mutation: the live set, the archive and the frame counter keep
\* their values from before the call.
C13_BatchedNoMutation ==
    [][(err.kind = "none" /\ err'.kind = "batched") =>
           /\ alive_tracklets' = alive_tracklets
           /\ dead_tracklets' = dead_tracklets
           /\ frame_count' = frame_count]_vars

\* C14: when track() of the base orchestrator is given a source that is not
\* iterable, it raises before any registry mutation: the live set, the archive
\* and the frame counter left by earlier calls are unchanged (no reset).
C14_NonIterableNoMutation ==
    [][err'.kind = "noniterable" =>
           /\ alive_tracklets' = alive_tracklets
           /\ dead_tracklets' = dead_tracklets
           /\ frame_count' = frame_count]_vars

\* C14 witness: track() raised for a source that is not iterable after a
\* completed pass that left tracklets in the live set and in the archive.
C14_Witness ==
    /\ err.kind = "noniterable" /\ pc = "done"
    /\ alive_tracklets # <<>> /\ dead_tracklets # <<>> /\ frame_count > 0

\* C15: update_tracklet and create_tracklet fail whenever the given state lacks
\* a required observation type, and the check comes before the tracklet is
\* touched: a step succeeds only when no state lacked a type, and when a call
\* fails the tracklet it was given is as before the step and, for
\* create_tracklet, the new tracklet is in neither registry.
C15_CheckBeforeTouch ==
    [][(orch = "base" /\ pc = "run" /\ frame_count' = frame_count + 1
        /\ err'.kind # "batched") =>
           /\ err'.kind = "none" => required_observation_types \subseteq h'.keys
           /\ err'.kind = "missing" =>
                  /\ ~(required_observation_types \subseteq err'.keys)
                  /\ ~err'.create =>
                         ById(alive_tracklets', err'.id) = ById(alive_tracklets, err'.id)
                  /\ err'.create =>
                         err'.id \notin Ids(alive_tracklets') \cup Ids(dead_tracklets')]_vars

\* C15 witness: update_tracklet raised for a live tracklet that already has
\* observations.
C15_Witness ==
    /\ orch = "base" /\ err.kind = "missing" /\ ~err.create
    /\ err.id \in Ids(alive_tracklets)
    /\ length(ById(alive_tracklets, err.id)) >= 1

\* C16: when the per-frame step for a frame raises, track() propagates the
\* error and the run stops: the frame is not counted as processed, no export
\* is produced, and nothing runs after the failure (no later frame, no retry,
\* no final cleanup), in both orchestrators.
C16_FailedStepStopsRun ==
    [][/\ StepRaised => (pc' = "failed" /\ frame_idx' = frame_idx /\ export' = <<>>)
       /\ pc # "failed"]_vars

\* C16 witness: a step raised after an earlier frame was processed and while
\* more than one frame of the input was still to come.
C16_Witness ==
    /\ pc = "failed" /\ err.kind \in {"missing", "batched", "detector", "matching"}
    /\ frame_idx > 0 /\ frame_idx + 1 < num_frames
    /\ export = <<>>

\* C17: once a tracklet has left the live registry (archived or discarded), no
\* later per-frame step of the same pass updates it, changes its staleness or
\* history, removes it from the archive or puts it back into the live
\* registry: a step keeps every archived tracklet as it is and in place, and
\* neither calls update on, nor leaves in the live registry, an id that left.
C17_DeadIsImmutable ==
    [][(pc = "run" /\ pc' \in {"run", "failed"}) =>
           /\ Len(Archive') >= Len(Archive)
           /\ \A k \in 1..Len(Archive) : Archive'[k] = Archive[k]
           /\ \A id \in h.left :
                  /\ id \notin Ids(Live')
                  /\ frame_idx' = frame_idx + 1 => (CallsOn(id))' = {}]_vars

\* C17 witness: a step with update calls has completed while the archive held
\* a tracklet that had left the live registry in an earlier step.
C17_Witness ==
    /\ Stepped /\ h.calls # <<>>
    /\ \E t \in Range(Archive) : t.id \in h.left /\ t.id \notin Ids(h.precleanup)

\* C18: over one complete track() run of the base orchestrator, cleanup() is
\* invoked at most once on any tracklet, and only on a tracklet that is
\* leaving the live registry: no tracklet of the live registry has received
\* cleanup().
C18_CleanupOnLeaving ==
    orch = "base" =>
        /\ \A t \in Range(alive_tracklets \o dead_tracklets) : t.cleaned <= 1
        /\ \A t \in Range(alive_tracklets) : t.cleaned = 0

\* the state of a tracklet: everything but the count of cleanup() calls, of
\* which only "terminal or not" is state
TrackletState(t) ==
    [id |-> t.id, staleness |-> t.staleness, obs |-> t.obs,
     max_staleness |-> t.max_staleness, terminal |-> t.cleaned > 0]

TrackletStates(s) == [j \in 1..Len(s) |-> TrackletState(s[j])]

C20_CreateIsOneUpdate ==
    Stepped =>
        /\ \A t \in Range(h.new) :
               /\ length(t) = 1 /\ t.obs[1].kind = "det" /\ t.staleness = 0
               /\ t.id \notin Ids(h.before) \cup Ids(h.precreate)
        /\ Len(h.new) = Len(h.created)
        /\ orch = "tm" => h.postcreate = h.precreate \o h.new

\* C20 witness: a step that began with live tracklets has created a tracklet.
C20_Witness ==
    /\ Stepped /\ h.new # <<>> /\ h.before # <<>>

\* the tracklets of the list s have pairwise distinct ids
DistinctIds(s) == Cardinality(Ids(s)) = Len(s)

\* C21: all tracklets ever created have pairwise distinct ids and a tracklet
\* keeps its id: in every state the tracklets of live registry and archive
\* have distinct ids, all handed out by the allocator; a step keeps the ids of
\* the tracklets it began with, and the ids it creates were never given to
\* any tracklet before (evicted ones included).
C21_UniqueStableIds ==
    [][/\ DistinctIds(Live' \o Archive')
       /\ \A id \in Ids(Live' \o Archive') : 0 <= id /\ id < next_id'
       /\ next_id' >= next_id
       /\ frame_idx' = frame_idx + 1 =>
              /\ DistinctIds(h'.precleanup)
              /\ Ids(h'.before) \subseteq Ids(h'.precleanup)
              /\ orch = "tm" =>
                     \A k \in 1..Len(h'.before) : h'.precleanup[k].id = h'.before[k].id
              /\ \A id \in Range(h'.created) : id >= next_id /\ id \notin h.left]_vars

\* C21 witness: a step has created two tracklets after an earlier tracklet
\* had been evicted.
C21_Witness ==
    /\ Stepped /\ Len(h.created) >= 2
    /\ \E id \in h.left : id \notin Ids(h.precleanup)

\* the step counter of the orchestrator
Counter == IF orch = "tm" THEN current_step ELSE frame_count

\* C22: within a per-frame step the counter advances last, after matching,
\* updates, creations, miss-updates and cleanup, and by exactly 1: after the
\* step of frame f the counter is one more than the value every update of the
\* step recorded and every tracklet created in the step was created at, in
\* both orchestrators.
C22_CounterAdvancesLast ==
    Stepped =>
        \A t \in Range(h.precleanup) :
            /\ CallsOn(t.id) # {} => t.obs[Len(t.obs)].step = Counter - 1
            /\ t.id \in Range(h.created) => t.created = Counter - 1

\* C27: at export time the exported set is exactly the union of the live
\* registry and the archive, each tracklet once: in every state no tracklet
\* is in both the live registry and the archive, and the export is the live
\* list followed by the archive, without a repeated tracklet.
C27_ExportIsLivePlusArchive ==
    /\ Ids(Live) \cap Ids(Archive) = {}
    /\ pc = "done" => (export = Live \o Archive /\ DistinctIds(export))

\* C27 witness: an export was built while both the live registry and the
\* archive held tracklets.
C27_Witness ==
    /\ pc = "done" /\ Live # <<>> /\ Archive # <<>>
    /\ Len(export) = Len(Live) + Len(Archive)

CallsOfFrames(k) ==
    [j \in 1..(2 * k) |-> [op |-> IF j % 2 = 1 THEN "detect" ELSE "step",
                           frame |-> (j - 1) \div 2]]

\* C23: in track() of the tracking_model orchestrator the detector and step()
\* are called exactly once per input frame, in input order, the step of a
\* frame being complete (counter advanced) before the detector is called for
\* the next frame, and the detector call changes no registry state.
C23_DetectThenStep ==
    [][orch = "tm" =>
          /\ \/ h'.log = CallsOfFrames(frame_idx')
             \/ /\ pc' = "failed"
                /\ h'.log = CallsOfFrames(frame_idx')
                             \o (IF err'.kind = "detector"
                                 THEN << [op |-> "detect", frame |-> frame_idx'] >>
                                 ELSE << [op |-> "detect", frame |-> frame_idx'],
                                         [op |-> "step", frame |-> frame_idx'] >>)
          /\ pc' # "failed" => current_step' = frame_idx'
          /\ (err.kind = "none" /\ err'.kind = "detector") =>
                 UNCHANGED <<trackers, stale_trackers, current_step,
                             detections_matched_ids>>]_vars

\* C23 witness: two frames were processed and the detector raised for the
\* third.
C23_Witness ==
    /\ orch = "tm" /\ pc = "failed" /\ err.kind = "detector"
    /\ frame_idx = 2 /\ Len(h.log) = 5 /\ trackers # <<>>

\* the start indices 0, s, 2s, ... of k per-frame steps
StartsOf(k) == [j \in 1..k |-> [op |-> "item", frame |-> (j - 1) * step_size]]

\* max(0, floor((n - w) / s) + 1)
StepsFor(n, w, s) ==
    IF ((n - w) \div s) + 1 > 0 THEN ((n - w) \div s) + 1 ELSE 0

\* C30: track() of the base orchestrator over a sequence of n single frames
\* (frames of at most 3 dimensions) with window_size w and stride s ends after
\* exactly max(0, floor((n - w) / s) + 1) per-frame steps, taken at the start
\* indices 0, s, 2s, ... in increasing order, and the frame counter then
\* equals that number (n with the defaults w = s = 1).
C30_WindowedSteps ==
    (/\ orch = "base" /\ pc \in {"done", "failed"}
     /\ err.kind \in {"none", "batched"} /\ err.ndim <= 3) =>
        /\ frame_count = StepsFor(num_frames, window_size, step_size)
        /\ h.log = StartsOf(frame_count)
        /\ (window_size = 1 /\ step_size = 1) => frame_count = num_frames

\* C24: deterministic replay: a second track() call on the same orchestrator
\* with the same frames, detections, matching strategy and configuration
\* leaves the same result as the first: the same number of tracklets, the same
\* live/archive partition and per tracklet the same length, staleness and
\* recorded step indices, in both orchestrators.
C24_DeterministicReplay ==
    (pc = "done" /\ h.pass = 2) => Result = h.first

\* C25: after max_staleness or min_length was changed between two track()
\* calls, the next pass uses the new values for every tracklet and every
\* eviction and archival decision: every tracklet of the registries was built
\* with the current max_staleness, the archived ones exceed it and have at
\* least the current min_length, the live ones do not exceed it during the
\* pass and have at least min_length after the final cleanup, and the step
\* discarded only tracklets shorter than min_length.
C25_ReconfigurationApplies ==
    (tune.pc = "search" /\ pc \in {"run", "done", "failed"}) =>
        /\ \A t \in Range(alive_tracklets \o dead_tracklets) :
               t.max_staleness = max_staleness
        /\ \A t \in Range(dead_tracklets) :
               t.staleness > max_staleness /\ length(t) >= min_length
        /\ \A t \in Range(alive_tracklets) :
               /\ t.staleness <= max_staleness
               /\ pc = "done" => length(t) >= min_length
        /\ \A t \in Range(h.precleanup) :
               t.id \in h.discarded <=> (t.staleness > max_staleness /\ length(t) < min_length)

\* C25 witness: in a trial that changed the configuration after an earlier
\* trial, a step has archived one tracklet and discarded another.
C25_Witness ==
    /\ tune.pc = "search" /\ tune.trial >= 2 /\ tune.changed
    /\ pc = "run" /\ dead_tracklets # <<>> /\ h.discarded # {}

\* C26: with reuse_detections, tune_hparams computes the detections once per
\* frame in frame order, the orchestrator's detection model is the replaying
\* source while the search runs, and whenever tune_hparams has exited, by
\* returning or by an error, the detection model is the original one again.
C26_DetectionModelRestored ==
    /\ (tune.pc = "search" /\ tune.reuse) =>
           /\ tune.detections = [j \in 1..Len(h.inputs) |-> j - 1]
           /\ detection_model = "dummy"
    /\ tune.pc \in {"returned", "raised"} => detection_model = tune.og

\* C31: after every completed per-frame step of either orchestrator, for
\* every max_staleness >= 0, no tracklet of the live registry is stale: every
\* live tracklet has staleness <= max_staleness, those matched or created in
\* the frame included.
C31_NoStaleLive ==
    (Stepped /\ err.kind = "none" /\ pc = "run") =>
        \A t \in Range(Live) : ~is_stale(t) /\ t.staleness <= max_staleness

\* C31 witness: after a completed step the live registry holds a tracklet
\* that has missed exactly max_staleness >= 1 frames in a row, and the step
\* evicted another tracklet.
C31_Witness ==
    /\ Stepped /\ err.kind = "none" /\ pc = "run" /\ max_staleness >= 1
    /\ \E t \in Range(Live) : t.staleness = max_staleness
    /\ Ids(h.precleanup) \ Ids(Live) # {}

\* the number of entries of the list s that carry the id
CountOf(s, id) == Cardinality({k \in 1..Len(s) : s[k].id = id})

\* the ids of the tracklets a step evicted and that are shorter than min_length
DiscardedBy(precleanup) ==
    {t.id : t \in {u \in Range(precleanup) : is_stale(u) /\ length(u) < min_length}}

\* C32: conservation of tracklets in process_sequence_item: after a completed
\* step every tracklet that was live before the step or created in it is in
\* exactly one of the live registry, the archive and the discarded set
\* (evicted and shorter than min_length), and in that one once; the live
\* registry holds nothing else.
C32_Conservation ==
    (orch = "base" /\ Stepped /\ err.kind = "none" /\ pc = "run") =>
        LET ids == Ids(h.before) \cup Range(h.created)
        IN /\ \A id \in ids :
                  CountOf(alive_tracklets, id) + CountOf(dead_tracklets, id)
                      + (IF id \in DiscardedBy(h.precleanup) THEN 1 ELSE 0) = 1
           /\ Ids(alive_tracklets) \subseteq ids
           /\ Cardinality(ids) = Len(h.before) + Len(h.created)
           /\ h.discarded = DiscardedBy(h.precleanup)

\* C32 witness: a completed step of the base orchestrator after which one
\* tracklet that was live before it is archived and another one is discarded.
C32_Witness ==
    /\ orch = "base" /\ Stepped /\ err.kind = "none" /\ pc = "run"
    /\ \E id \in Ids(h.before) : id \in Ids(dead_tracklets)
    /\ \E id \in Ids(h.before) : id \in DiscardedBy(h.precleanup)

\* the ids of the tracklets that got a miss update in the step
MissUpdated == {h.calls[k].id : k \in CallsWith(None)}

\* the ids of the tracklets that were live when matching ran and are in no
\* pair of the matching result
UnmatchedAtMatching ==
    {h.before[i + 1].id :
        i \in (0..(Len(h.before) - 1)) \ {h.matches[k][1] : k \in 1..Len(h.matches)}}

\* C33: within one step() call the indices of the matching result designate
\* the same tracklets until the cleanup pass (the live list at the cleanup is
\* the live list at matching, in the same order, followed by the tracklets
\* created in the step), and the tracklets that get a miss update are
\* exactly those that were live when matching ran and are in no match.
C33_IndicesStable ==
    (orch = "tm" /\ Stepped /\ err.kind = "none") =>
        /\ Len(h.precleanup) = Len(h.before) + Len(h.created)
        /\ \A j \in 1..Len(h.before) : h.precleanup[j].id = h.before[j].id
        /\ \A j \in 1..Len(h.created) :
               h.precleanup[Len(h.before) + j].id = h.created[j]
        /\ MissUpdated = UnmatchedAtMatching

\* the detection indices of the frame that are in a pair of the matching result
MatchedDets == {h.matches[k][2] : k \in 1..Len(h.matches)}

\* C34: after every step() call with a one-to-one matching result,
\* detections_matched_ids has one entry per detection of the frame, no entry
\* is None, the entry of a matched detection is the id of its matched
\* tracklet, the entry of an unmatched detection is the id of the tracklet
\* created from it, and the entries are pairwise distinct.
C34_MatchedIds ==
    (orch = "tm" /\ Stepped /\ err.kind = "none" /\ OneToOne(h.matches)) =>
        /\ Len(detections_matched_ids) = h.n
        /\ \A j \in 1..Len(detections_matched_ids) : detections_matched_ids[j] # None
        /\ \A k \in 1..Len(h.matches) :
               detections_matched_ids[h.matches[k][2] + 1] = h.before[h.matches[k][1] + 1].id
        /\ \A d \in (0..(h.n - 1)) \ MatchedDets :
               /\ detections_matched_ids[d + 1] \in Range(h.created)
               /\ \E t \in Range(h.new) :
                      /\ t.id = detections_matched_ids[d + 1]
                      /\ \E k \in CallsOn(t.id) : h.calls[k].det = d
        /\ \A i, j \in 1..Len(detections_matched_ids) :
               i # j => detections_matched_ids[i] # detections_matched_ids[j]

\* C34 witness: a step() call with two detections of which the matching
\* result pairs one with a live tracklet and leaves the other unmatched.
C34_Witness ==
    /\ orch = "tm" /\ Stepped /\ err.kind = "none" /\ OneToOne(h.matches)
    /\ h.n = 2 /\ Len(h.matches) = 1 /\ Len(h.created) = 1

====
